---- MODULE Spec2Model ----
(***************************************************************************)
(* The form builder's field tree: the FormConfig held by                   *)
(* FormBuilderProvider, its mutators (addField, updateField, deleteField,   *)
(* moveField, updateConfig through the import dialog), the tree locator     *)
(* findField, and FormPreview beside it: the values entered, their          *)
(* validation, the submission with its snapshot and labeled export, and     *)
(* the reset when the builder hands the preview a new fields array.         *)
(*                                                                          *)
(* A field is a record with the keys of types.ts: id, label, required,      *)
(* type, and "fields" (a sequence of fields) for a group.  An optional      *)
(* value (min, max, the parentPath and parentId arguments) is a set of at   *)
(* most one element: {} is undefined / null, {v} is the value v.            *)
(***************************************************************************)
EXTENDS Integers, Sequences, FiniteSets, TLC

VARIABLES
    config,       \* FormBuilderProvider's state: [fields |-> <<...>>]
    nextId,       \* number of ids generateId has handed out so far
    importError,  \* ConfigurableFormBuilder's importError message key
    result,       \* what the last findField call returned
    prev,         \* history: config before the last handler ran
    lastOp,       \* history: the last handler and its arguments
    steps,        \* history: number of handlers run so far
    formData,         \* FormPreview's state: the values entered, by id
    errors,           \* FormPreview's state: error messages by error key
    submittedData,    \* FormPreview's state: the snapshot of the last submit
    showSubmitModal,  \* FormPreview's state: the success display is open
    aliased,      \* root keys whose object formData and submittedData share
    prevView,     \* history: FormPreview's state before the last handler ran
    edits         \* history: number of FormPreview handlers run so far

builderVars == <<config, nextId, importError>>
previewVars == <<formData, errors, submittedData, showSubmitModal, aliased>>
vars == <<config, nextId, importError, result, prev, lastOp, steps,
          formData, errors, submittedData, showSubmitModal, aliased,
          prevView, edits>>

-----------------------------------------------------------------------------
(* Bounds of the model *)

MaxSteps == 3      \* a session runs at most this many handlers
MaxNodes == 3      \* findField is tried on every tree of at most this many fields
MaxPathLen == 2    \* ... with every parent path of at most this length
MaxEdits == 3      \* a session of the preview runs at most this many handlers
MaxLimit == 2      \* min and max of a number field are taken from 0..MaxLimit

-----------------------------------------------------------------------------
(* Optional values *)

Undefined == {}
Some(v) == {v}
Val(o) == CHOOSE v \in o : TRUE

(* { ...a, ...b } *)
Spread(a, b) ==
    [k \in DOMAIN a \cup DOMAIN b |-> IF k \in DOMAIN b THEN b[k] ELSE a[k]]

Range(s) == {s[i] : i \in 1..Len(s)}

-----------------------------------------------------------------------------
(* types.ts *)

FieldType == {"text", "number", "group"}
Direction == {"up", "down"}

TextField(id, label, required) ==
    [id |-> id, label |-> label, required |-> required, type |-> "text"]

NumberField(id, label, required) ==
    [id |-> id, label |-> label, required |-> required, type |-> "number"]

GroupField(id, label, required, fields) ==
    [id |-> id, label |-> label, required |-> required, type |-> "group",
     fields |-> fields]

-----------------------------------------------------------------------------
(* utils/findField.ts *)

Null == [found |-> FALSE]

pathStartsWith(target, prefix) ==
    /\ Len(target) >= Len(prefix)
    /\ \A idx \in 1..Len(prefix) : prefix[idx] = target[idx]

checkWithinScope(parentPath, currentPath) ==
    IF parentPath = Undefined THEN TRUE
    ELSE IF Len(Val(parentPath)) = 0 THEN Len(currentPath) = 0
    ELSE pathStartsWith(currentPath, Val(parentPath))

(* The group's children are searched when no path is given, or when the    *)
(* path to the group is at or beyond the parent path, or still builds it.   *)
shouldDescend(parentPath, nextPath) ==
    IF parentPath = Undefined THEN TRUE
    ELSE LET isAtOrBeyondPrefix == pathStartsWith(nextPath, Val(parentPath))
             isBuildingPrefix ==
                 /\ Len(nextPath) < Len(Val(parentPath))
                 /\ \A idx \in 1..Len(nextPath) :
                        nextPath[idx] = Val(parentPath)[idx]
         IN  isAtOrBeyondPrefix \/ isBuildingPrefix

(* searchRecursive's loop, from position i (1-based) of fieldList; the      *)
(* returned index is the 0-based index of the source.                       *)
RECURSIVE searchRecursive(_, _, _, _, _)
searchRecursive(fieldId, parentPath, fieldList, currentPath, i) ==
    IF parentPath # Undefined /\ Len(Val(parentPath)) = 0 /\ Len(currentPath) > 0
    THEN Null
    ELSE IF i > Len(fieldList) THEN Null
    ELSE LET field == fieldList[i]
             isWithinScope == checkWithinScope(parentPath, currentPath)
         IN  IF isWithinScope /\ field.id = fieldId
             THEN [found |-> TRUE, field |-> field, parent |-> fieldList,
                   index |-> i - 1]
             ELSE IF field.type = "group"
             THEN LET nextPath == Append(currentPath, field.id)
                      found == IF shouldDescend(parentPath, nextPath)
                               THEN searchRecursive(fieldId, parentPath,
                                                    field.fields, nextPath, 1)
                               ELSE Null
                  IN  IF found # Null THEN found
                      ELSE searchRecursive(fieldId, parentPath, fieldList,
                                           currentPath, i + 1)
             ELSE searchRecursive(fieldId, parentPath, fieldList,
                                  currentPath, i + 1)

(* findField without the descent into groups: the top level only. *)
findField_NoDescent(fieldId, fields, parentPath) ==
    IF \E i \in 1..Len(fields) : fields[i].id = fieldId
    THEN LET i == CHOOSE i \in 1..Len(fields) :
                      /\ fields[i].id = fieldId
                      /\ \A j \in 1..(i - 1) : fields[j].id # fieldId
         IN  [found |-> TRUE, field |-> fields[i], parent |-> fields,
              index |-> i - 1]
    ELSE Null

findField(fieldId, fields, parentPath) ==
    searchRecursive(fieldId, parentPath, fields, <<>>, 1)

findFieldByPath(fieldId, parentPath, fields) ==
    LET r == findField(fieldId, fields, Some(parentPath))
    IN  IF r # Null THEN Some(r.field) ELSE Undefined

-----------------------------------------------------------------------------
(* utils/generateId.ts: `field-${Date.now()}-${random}`.  The n-th call     *)
(* returns a string no earlier call returned.                               *)
(* generateId returning the string of an earlier call. *)
generateId_Repeated(n) == "field-1"

generateId(n) == "field-" \o ToString(n)

(* i18n.t(key): the locale table is data; a key stands for its translation. *)
t(key) == key

-----------------------------------------------------------------------------
(* context/FormBuilderContext.tsx *)

getDefaultLabel(type) ==
    CASE type = "text" -> t("formBuilder.defaultLabels.textField")
      [] type = "number" -> t("formBuilder.defaultLabels.numberField")
      [] type = "group" -> t("formBuilder.defaultLabels.groupField")
      [] OTHER -> "New " \o type \o " field"

newFieldOf(fieldType, id) ==
    IF fieldType = "group"
    THEN GroupField(id, getDefaultLabel(fieldType), FALSE, <<>>)
    ELSE IF fieldType = "number"
    THEN NumberField(id, getDefaultLabel(fieldType), FALSE)
    ELSE TextField(id, getDefaultLabel(fieldType), FALSE)

(* addField's updateFields: fields.map(...) *)
RECURSIVE addUpdateFields(_, _, _)
addUpdateFields(fields, parentId, newField) ==
    [i \in 1..Len(fields) |->
        LET field == fields[i]
        IN  IF field.id = parentId /\ field.type = "group"
            THEN Spread(field, [fields |-> Append(field.fields, newField)])
            ELSE IF field.type = "group"
            THEN Spread(field, [fields |->
                     addUpdateFields(field.fields, parentId, newField)])
            ELSE field]

(* The parentFound flag after updateFields(prev.fields) has run: set by the *)
(* fields the map visits, and the map does not visit below a match.         *)
RECURSIVE parentFound(_, _)
parentFound(fields, parentId) ==
    \E i \in 1..Len(fields) :
        LET field == fields[i]
        IN  IF field.id = parentId /\ field.type = "group" THEN TRUE
            ELSE IF field.type = "group"
            THEN parentFound(field.fields, parentId)
            ELSE FALSE

(* addField that drops the field when the parent is not found. *)
addField_NoFallback(prevConfig, parentId, fieldType, id) ==
    IF parentId = Undefined
    THEN [fields |-> Append(prevConfig.fields, newFieldOf(fieldType, id))]
    ELSE [fields |-> addUpdateFields(prevConfig.fields, Val(parentId),
                                     newFieldOf(fieldType, id))]

(* addField that puts a top-level field first instead of last. *)
addField_Prepend(prevConfig, parentId, fieldType, id) ==
    IF parentId = Undefined
    THEN [fields |-> <<newFieldOf(fieldType, id)>> \o prevConfig.fields]
    ELSE IF ~parentFound(prevConfig.fields, Val(parentId))
    THEN [fields |-> Append(prevConfig.fields, newFieldOf(fieldType, id))]
    ELSE [fields |-> addUpdateFields(prevConfig.fields, Val(parentId),
                                     newFieldOf(fieldType, id))]

(* addField(parentId, fieldType) on prevConfig; id is generateId()'s value. *)
addField(prevConfig, parentId, fieldType, id) ==
    LET newField == newFieldOf(fieldType, id)
    IN  IF parentId = Undefined
        THEN [fields |-> Append(prevConfig.fields, newField)]
        ELSE LET updatedFields ==
                     addUpdateFields(prevConfig.fields, Val(parentId), newField)
             IN  IF ~parentFound(prevConfig.fields, Val(parentId))
                 THEN [fields |-> Append(updatedFields, newField)]
                 ELSE [fields |-> updatedFields]

(* updateOne keeping only the attributes the update names. *)
updateOne_DropUnnamed(field, updates) ==
    Spread([id |-> field.id, type |-> field.type], updates)

(* The field updateField puts in the place of a field whose id matches. *)
updateOne(field, updates) ==
    IF "type" \in DOMAIN updates /\ updates.type # field.type
    THEN IF updates.type = "group"
         THEN Spread(Spread(field, updates),
                     [fields |-> IF field.type = "group"
                                 THEN field.fields ELSE <<>>])
         ELSE LET baseField ==
                      [id |-> field.id,
                       label |-> IF "label" \in DOMAIN updates
                                 THEN updates.label ELSE field.label,
                       required |-> IF "required" \in DOMAIN updates
                                    THEN updates.required ELSE field.required,
                       type |-> updates.type]
              IN  IF updates.type = "number"
                  THEN Spread(baseField,
                              [min |-> IF "min" \in DOMAIN updates
                                       THEN updates.min ELSE Undefined,
                               max |-> IF "max" \in DOMAIN updates
                                       THEN updates.max ELSE Undefined])
                  ELSE baseField
    ELSE Spread(field, updates)

(* updateField's updateFields: fields.map(...) *)
RECURSIVE updateUpdateFields(_, _, _)
updateUpdateFields(fields, fieldId, updates) ==
    [i \in 1..Len(fields) |->
        LET field == fields[i]
        IN  IF field.id = fieldId THEN updateOne(field, updates)
            ELSE IF field.type = "group"
            THEN Spread(field, [fields |->
                     updateUpdateFields(field.fields, fieldId, updates)])
            ELSE field]

updateField(prevConfig, fieldId, updates) ==
    [fields |-> updateUpdateFields(prevConfig.fields, fieldId, updates)]

(* deleteField's deleteFromFields: fields.filter(...).map(...) *)
RECURSIVE deleteFromFields(_, _)
deleteFromFields(fields, fieldId) ==
    LET kept == SelectSeq(fields, LAMBDA field : field.id # fieldId)
    IN  [i \in 1..Len(kept) |->
            IF kept[i].type = "group"
            THEN Spread(kept[i], [fields |->
                     deleteFromFields(kept[i].fields, fieldId)])
            ELSE kept[i]]

(* deleteField that takes a group out and leaves its children in its place. *)
RECURSIVE deleteKeepingChildren(_, _)
deleteKeepingChildren(fields, fieldId) ==
    IF Len(fields) = 0 THEN <<>>
    ELSE LET field == fields[1]
             rest == deleteKeepingChildren(Tail(fields), fieldId)
         IN  IF field.type = "group"
             THEN IF field.id = fieldId
                  THEN deleteKeepingChildren(field.fields, fieldId) \o rest
                  ELSE <<Spread(field, [fields |->
                           deleteKeepingChildren(field.fields, fieldId)])>>
                       \o rest
             ELSE IF field.id = fieldId THEN rest ELSE <<field>> \o rest

deleteField_KeepChildren(prevConfig, fieldId) ==
    [fields |-> deleteKeepingChildren(prevConfig.fields, fieldId)]

(* deleteField that filters the top level only. *)
deleteField_TopLevelOnly(prevConfig, fieldId) ==
    [fields |-> SelectSeq(prevConfig.fields, LAMBDA field : field.id # fieldId)]

deleteField(prevConfig, fieldId) ==
    [fields |-> deleteFromFields(prevConfig.fields, fieldId)]

(* fields.findIndex((f) => f.id === fieldId), 0-based, -1 when absent *)
findIndex(fields, fieldId) ==
    IF \E i \in 1..Len(fields) : fields[i].id = fieldId
    THEN (CHOOSE i \in 1..Len(fields) :
              /\ fields[i].id = fieldId
              /\ \A j \in 1..(i - 1) : fields[j].id # fieldId) - 1
    ELSE -1

(* moveField's moveInFields *)
RECURSIVE moveInFields(_, _, _)
moveInFields(fields, fieldId, direction) ==
    LET index == findIndex(fields, fieldId)
    IN  IF index = -1
        THEN [i \in 1..Len(fields) |->
                 IF fields[i].type = "group"
                 THEN Spread(fields[i], [fields |->
                          moveInFields(fields[i].fields, fieldId, direction)])
                 ELSE fields[i]]
        ELSE LET newIndex == IF direction = "up" THEN index - 1 ELSE index + 1
             IN  IF newIndex < 0 \/ newIndex >= Len(fields) THEN fields
                 ELSE [i \in 1..Len(fields) |->
                          IF i = index + 1 THEN fields[newIndex + 1]
                          ELSE IF i = newIndex + 1 THEN fields[index + 1]
                          ELSE fields[i]]

moveField(prevConfig, fieldId, direction) ==
    [fields |-> moveInFields(prevConfig.fields, fieldId, direction)]

updateConfig(newConfig) == newConfig

-----------------------------------------------------------------------------
(* ConfigurableFormBuilder.handleImportSubmit.  The text of the import box  *)
(* is modelled by what JSON.parse makes of it: importJson.kind is "notJson" *)
(* (parse throws), "notObject" (null or a primitive), "noFieldsArray" (an   *)
(* object whose fields is no array) or "document" (an object whose fields   *)
(* array is importJson.fields).  A candidate field is a record that may     *)
(* lack keys.                                                               *)

RECURSIVE validateField(_)
validateField(field) ==
    /\ "id" \in DOMAIN field /\ field.id # ""
    /\ "type" \in DOMAIN field /\ field.type # ""
    /\ "label" \in DOMAIN field /\ field.label # ""
    /\ "required" \in DOMAIN field /\ field.required \in BOOLEAN
    /\ field.type \in {"text", "number", "group"}
    /\ field.type = "group" =>
           /\ "fields" \in DOMAIN field
           /\ \A i \in 1..Len(field.fields) : validateField(field.fields[i])

(* importMessage that does not look at the fields of the document. *)
importMessage_FieldsUnchecked(importJson) ==
    IF importJson.kind = "notJson" THEN "SyntaxError.message"
    ELSE IF importJson.kind = "notObject"
    THEN t("formBuilder.messages.invalidFormat")
    ELSE IF importJson.kind = "noFieldsArray"
    THEN t("formBuilder.messages.missingFields")
    ELSE ""

(* The message handleImportSubmit leaves in importError; "" on success.     *)
(* JSON.parse throws a SyntaxError, which is an Error: the catch block      *)
(* shows its own message.                                                   *)
importMessage(importJson) ==
    IF importJson.kind = "notJson" THEN "SyntaxError.message"
    ELSE IF importJson.kind = "notObject"
    THEN t("formBuilder.messages.invalidFormat")
    ELSE IF importJson.kind = "noFieldsArray"
    THEN t("formBuilder.messages.missingFields")
    ELSE IF ~ \A i \in 1..Len(importJson.fields) :
                  validateField(importJson.fields[i])
    THEN t("formBuilder.messages.invalidFields")
    ELSE ""

(* JSON.stringify leaves out a property whose value is undefined; strings,  *)
(* booleans, integers and arrays are written and parsed back as they are.   *)
RECURSIVE stringifyFields(_)
stringifyFields(fields) ==
    [i \in 1..Len(fields) |->
        LET field == fields[i]
            written == {k \in DOMAIN field :
                           ~(k \in {"min", "max"} /\ field[k] = Undefined)}
        IN  [k \in written |->
                IF k = "fields" THEN stringifyFields(field.fields)
                ELSE field[k]]]

(* exportedJson pasted into the import box: what JSON.parse makes of        *)
(* JSON.stringify(config, null, 2).                                         *)
exportedJson(cfg) ==
    [kind |-> "document", fields |-> stringifyFields(cfg.fields)]

-----------------------------------------------------------------------------
(* FormPreview.tsx: values and the validation rule                          *)
(*                                                                          *)
(* A value of the form data carries its JavaScript type: a string is a      *)
(* sequence of one-character strings, a number is an integer or NaN, an     *)
(* object maps ids to values.                                               *)

Str(s) == [typeof |-> "string", s |-> s]
Num(n) == [typeof |-> "number", n |-> n]
NaN == [typeof |-> "number", nan |-> TRUE]
NullValue == [typeof |-> "null"]
Obj(m) == [typeof |-> "object", m |-> m]
EmptyObject == <<>>

isString(value) == value.typeof = "string"
isObject(value) == value.typeof = "object"
isNaN(value) == "n" \notin DOMAIN value

(* fieldValue ?? null *)
OrNull(o) == IF o = Undefined THEN NullValue ELSE Val(o)

(* obj[key], undefined when the key is not there *)
Get(obj, key) == IF key \in DOMAIN obj THEN Some(obj[key]) ELSE Undefined

(* String.prototype.trim *)
RECURSIVE trimStart(_)
trimStart(s) ==
    IF Len(s) > 0 /\ s[1] = " " THEN trimStart(Tail(s)) ELSE s

RECURSIVE trimEnd(_)
trimEnd(s) ==
    IF Len(s) > 0 /\ s[Len(s)] = " " THEN trimEnd(SubSeq(s, 1, Len(s) - 1))
    ELSE s

trim(s) == trimEnd(trimStart(s))

DigitValue ==
    [c \in {"0", "1", "2", "3", "4", "5", "6", "7", "8", "9"} |->
        CASE c = "0" -> 0 [] c = "1" -> 1 [] c = "2" -> 2 [] c = "3" -> 3
          [] c = "4" -> 4 [] c = "5" -> 5 [] c = "6" -> 6 [] c = "7" -> 7
          [] c = "8" -> 8 [] c = "9" -> 9]

RECURSIVE digitsValue(_, _)
digitsValue(s, acc) ==
    IF Len(s) = 0 THEN acc
    ELSE digitsValue(Tail(s), 10 * acc + DigitValue[s[1]])

(* Number(string): surrounding white space is dropped, the empty string is  *)
(* 0, a decimal integer numeral with an optional sign is its value, and     *)
(* any other text is NaN.                                                   *)
Number(s) ==
    LET body == trim(s)
        unsigned == IF Len(body) > 0 /\ body[1] \in {"-", "+"}
                    THEN Tail(body) ELSE body
    IN  IF Len(body) = 0 THEN Num(0)
        ELSE IF Len(unsigned) > 0
                /\ \A i \in 1..Len(unsigned) : unsigned[i] \in DOMAIN DigitValue
        THEN Num(IF body[1] = "-" THEN 0 - digitsValue(unsigned, 0)
                 ELSE digitsValue(unsigned, 0))
        ELSE NaN

(* t(key, { name: n }) *)
tWith(key, name, n) == key \o "{" \o name \o ":" \o ToString(n) \o "}"

(* makeErrorKey: [...parentPath, fieldId].join('.') *)
RECURSIVE join(_, _)
join(parts, sep) ==
    IF Len(parts) = 0 THEN ""
    ELSE IF Len(parts) = 1 THEN parts[1]
    ELSE parts[1] \o sep \o join(Tail(parts), sep)

(* makeErrorKey without the parent path. *)
makeErrorKey_IdOnly(parentPath, fieldId) == fieldId

makeErrorKey(parentPath, fieldId) == join(Append(parentPath, fieldId), ".")

isEmptyValue(value) ==
    IF value.typeof = "null" THEN TRUE
    ELSE IF isString(value) THEN value.s = <<>> \/ trim(value.s) = <<>>
    ELSE FALSE

(* validateValue with the range checks made strict at the limits. *)
validateValue_LimitsExcluded(field, value) ==
    IF field.required /\ isEmptyValue(value)
    THEN Some(t("formBuilder.validation.required"))
    ELSE IF isEmptyValue(value) THEN Undefined
    ELSE IF field.type = "number"
    THEN LET numValue == IF isString(value) THEN Number(value.s)
                         ELSE IF isObject(value) THEN NaN ELSE value
         IN  IF isNaN(numValue)
             THEN Some(t("formBuilder.validation.invalidNumber"))
             ELSE IF "min" \in DOMAIN field /\ field.min # Undefined
                     /\ numValue.n <= Val(field.min)
             THEN Some(tWith("formBuilder.validation.minValue", "min",
                             Val(field.min)))
             ELSE IF "max" \in DOMAIN field /\ field.max # Undefined
                     /\ numValue.n >= Val(field.max)
             THEN Some(tWith("formBuilder.validation.maxValue", "max",
                             Val(field.max)))
             ELSE Undefined
    ELSE Undefined

(* validateValue: the error message of a value for a field, or none *)
validateValue(field, value) ==
    IF field.required /\ isEmptyValue(value)
    THEN Some(t("formBuilder.validation.required"))
    ELSE IF isEmptyValue(value) THEN Undefined
    ELSE IF field.type = "number"
    THEN LET numValue == IF isString(value) THEN Number(value.s)
                         ELSE IF isObject(value) THEN NaN ELSE value
         IN  IF isNaN(numValue)
             THEN Some(t("formBuilder.validation.invalidNumber"))
             ELSE IF "min" \in DOMAIN field /\ field.min # Undefined
                     /\ numValue.n < Val(field.min)
             THEN Some(tWith("formBuilder.validation.minValue", "min",
                             Val(field.min)))
             ELSE IF "max" \in DOMAIN field /\ field.max # Undefined
                     /\ numValue.n > Val(field.max)
             THEN Some(tWith("formBuilder.validation.maxValue", "max",
                             Val(field.max)))
             ELSE Undefined
    ELSE Undefined

-----------------------------------------------------------------------------
(* FormPreview.tsx: form data, error map, submission and export             *)
(*                                                                          *)
(* The form data and the error map are functions from keys to values; a     *)
(* nested object of the form data is Obj(m).  The snapshot submittedData    *)
(* is an optional form data.                                                *)

(* obj[key] = value *)
Put(obj, key, value) == Spread(obj, [k \in {key} |-> value])

(* delete obj[key] *)
Del(obj, key) == [k \in DOMAIN obj \ {key} |-> obj[k]]

(* The object found by walking parentPath down from data, when every step   *)
(* of the path is an object. *)
RECURSIVE dataAt(_, _)
dataAt(data, parentPath) ==
    IF Len(parentPath) = 0 THEN Some(data)
    ELSE IF parentPath[1] \in DOMAIN data /\ isObject(data[parentPath[1]])
    THEN dataAt(data[parentPath[1]].m, Tail(parentPath))
    ELSE Undefined

(* validateField of the preview: the error map after validating value as   *)
(* the field findFieldByPath resolves; unchanged when it resolves none.     *)
previewValidateField(errs, fieldId, value, parentPath, fields) ==
    LET field == findFieldByPath(fieldId, parentPath, fields)
        errorKey == makeErrorKey(parentPath, fieldId)
    IN  IF field = Undefined THEN errs
        ELSE LET error == validateValue(Val(field), value)
             IN  IF error # Undefined THEN Put(errs, errorKey, Val(error))
                 ELSE Del(errs, errorKey)

(* handleFieldChange's new form data: a copy of the root object with value *)
(* stored under fieldId in the object at parentPath, objects being made     *)
(* where the path has none.                                                 *)
RECURSIVE setAt(_, _, _, _)
setAt(current, parentPath, fieldId, value) ==
    IF Len(parentPath) = 0 THEN Put(current, fieldId, value)
    ELSE LET parentId == parentPath[1]
             child == IF parentId \in DOMAIN current
                         /\ isObject(current[parentId])
                      THEN current[parentId].m ELSE EmptyObject
         IN  Put(current, parentId,
                 Obj(setAt(child, Tail(parentPath), fieldId, value)))

(* validateFieldRecursive that does not walk the children of a group. *)
RECURSIVE validateFieldRecursive_TopLevelOnly(_, _, _, _, _)
validateFieldRecursive_TopLevelOnly(data, fieldsToCheck, parentPath, newErrors, i) ==
    IF i > Len(fieldsToCheck) THEN newErrors
    ELSE LET field == fieldsToCheck[i]
             found == dataAt(data, parentPath)
             currentData == IF found = Undefined THEN EmptyObject ELSE Val(found)
             error == validateValue(field, OrNull(Get(currentData, field.id)))
             errorKey == makeErrorKey(parentPath, field.id)
             own == IF error # Undefined
                    THEN Put(newErrors, errorKey, Val(error)) ELSE newErrors
         IN  validateFieldRecursive_TopLevelOnly(data, fieldsToCheck,
                                                 parentPath, own, i + 1)

(* validateAllFields' validateFieldRecursive, from position i of            *)
(* fieldsToCheck: every field, a group too, is validated on the value       *)
(* under its id, then a group's children are walked.                        *)
RECURSIVE validateFieldRecursive(_, _, _, _, _)
validateFieldRecursive(data, fieldsToCheck, parentPath, newErrors, i) ==
    IF i > Len(fieldsToCheck) THEN newErrors
    ELSE LET field == fieldsToCheck[i]
             found == dataAt(data, parentPath)
             currentData == IF found = Undefined THEN EmptyObject ELSE Val(found)
             error == validateValue(field, OrNull(Get(currentData, field.id)))
             errorKey == makeErrorKey(parentPath, field.id)
             own == IF error # Undefined
                    THEN Put(newErrors, errorKey, Val(error)) ELSE newErrors
             below == IF field.type = "group"
                      THEN validateFieldRecursive(data, field.fields,
                               Append(parentPath, field.id), own, 1)
                      ELSE own
         IN  validateFieldRecursive(data, fieldsToCheck, parentPath, below, i + 1)

validateAllFields(data, fields) ==
    validateFieldRecursive(data, fields, <<>>, EmptyObject, 1)

(* buildLabeledData, from position i of fieldList with the result so far. *)
RECURSIVE buildLabeledData(_, _, _, _, _)
buildLabeledData(data, fieldList, parentPath, result0, i) ==
    LET found == dataAt(data, parentPath)
    IN  IF found = Undefined \/ i > Len(fieldList) THEN result0
        ELSE LET field == fieldList[i]
                 currentData == Val(found)
                 value == Get(currentData, field.id)
                 groupValue == buildLabeledData(data, field.fields,
                                   Append(parentPath, field.id), EmptyObject, 1)
                 next == IF field.type = "group"
                         THEN IF DOMAIN groupValue # {}
                              THEN Put(result0, field.label, Obj(groupValue))
                              ELSE result0
                         ELSE IF value # Undefined
                                 /\ Val(value) # NullValue
                                 /\ Val(value) # Str(<<>>)
                                 /\ ~isObject(Val(value))
                         THEN Put(result0, field.label, Val(value))
                         ELSE result0
             IN  buildLabeledData(data, fieldList, parentPath, next, i + 1)

(* The document getSubmittedDataJSON serialises. *)
labeledData(snapshot, fields) ==
    buildLabeledData(snapshot, fields, <<>>, EmptyObject, 1)

(* handleFieldChange that validates the value but does not store it. *)
handleFieldChange_NotStored(view, fields, fieldId, value, parentPath) ==
    [view EXCEPT
        !.errors = previewValidateField(
                       Del(view.errors, makeErrorKey(parentPath, fieldId)),
                       fieldId, value, parentPath, fields)]

(* handleFieldChange: the form data and error map it leaves. *)
handleFieldChange(view, fields, fieldId, value, parentPath) ==
    [view EXCEPT
        !.formData = setAt(view.formData, parentPath, fieldId, value),
        !.errors = previewValidateField(
                       Del(view.errors, makeErrorKey(parentPath, fieldId)),
                       fieldId, value, parentPath, fields)]

(* handleSubmit that stores the snapshot whatever validateAllFields finds. *)
handleSubmit_StoresAlways(view, fields) ==
    [view EXCEPT !.errors = validateAllFields(view.formData, fields),
                 !.submittedData = Some(view.formData),
                 !.showSubmitModal = TRUE]

(* handleSubmit: the state of the preview it leaves. *)
handleSubmit(view, fields) ==
    LET newErrors == validateAllFields(view.formData, fields)
    IN  IF DOMAIN newErrors = {}
        THEN [view EXCEPT !.errors = newErrors,
                          !.submittedData = Some(view.formData),
                          !.showSubmitModal = TRUE]
        ELSE [view EXCEPT !.errors = newErrors]

-----------------------------------------------------------------------------
(* Inputs of the model *)

Leaf(id) == TextField(id, id, FALSE)
Group(id, fields) == GroupField(id, id, FALSE, fields)

RECURSIVE NodeCount(_)
NodeCount(fields) ==
    IF Len(fields) = 0 THEN 0
    ELSE 1 + (IF fields[1].type = "group" THEN NodeCount(fields[1].fields) ELSE 0)
           + NodeCount(Tail(fields))

(* The same tree with each field's label set to its number in pre-order,   *)
(* so that two fields with one id are told apart.                          *)
RECURSIVE Relabel(_, _)
Relabel(fields, from) ==
    IF Len(fields) = 0 THEN <<>>
    ELSE LET f == fields[1]
             size == NodeCount(<<f>>)
             g == IF f.type = "group"
                  THEN Spread(f, [label |-> ToString(from),
                                  fields |-> Relabel(f.fields, from + 1)])
                  ELSE Spread(f, [label |-> ToString(from)])
         IN  <<g>> \o Relabel(Tail(fields), from + size)

(* Documents pasted into the import box: texts the dialog rejects, the      *)
(* nested document of the submission tests, and trees in which one id is    *)
(* carried by fields of different groups (ids are unique among siblings).   *)
ImportDocs ==
    { [kind |-> "notJson"],
      [kind |-> "notObject"],
      [kind |-> "noFieldsArray"],
      [kind |-> "document",
       fields |-> << [id |-> "a", type |-> "text", required |-> FALSE] >>],
      [kind |-> "document",
       fields |-> << GroupField("g", "G", FALSE,
                                << TextField("t", "T", TRUE) >>) >>],
      [kind |-> "document",
       fields |-> Relabel(<< Group("g", << Leaf("a") >>), Leaf("a") >>, 1)],
      [kind |-> "document",
       fields |-> Relabel(<< Group("g", <<>>),
                             Group("h", << Group("g", <<>>) >>) >>, 1)],
      [kind |-> "document",
       fields |-> Relabel(<< Group("g", << Group("h", << Leaf("y") >>),
                                           Leaf("x") >>),
                             Leaf("x") >>, 1)],
      [kind |-> "document",
       fields |-> Relabel(<< Group("g", << Leaf("x"), Leaf("a") >>),
                             Group("h", << Leaf("a"), Leaf("x") >>) >>, 1)] }

AbsentId == "absent"

(* What updateField is called with. *)
Updates ==
    { [label |-> "Renamed"], [label |-> ""], [required |-> TRUE],
      [type |-> "number"], [type |-> "group"],
      [type |-> "text", label |-> "Retyped"], [min |-> Some(1)],
      [fields |-> <<>>] }

RECURSIVE IdsOf(_)
IdsOf(fields) ==
    UNION { {fields[i].id} \cup
            (IF fields[i].type = "group" THEN IdsOf(fields[i].fields) ELSE {})
            : i \in 1..Len(fields) }

-----------------------------------------------------------------------------
(* The builder *)

NoOp == [kind |-> "none"]

(* FormPreview's state *)
View ==
    [formData |-> formData, errors |-> errors,
     submittedData |-> submittedData, showSubmitModal |-> showSubmitModal]

InitialView ==
    [formData |-> EmptyObject, errors |-> EmptyObject,
     submittedData |-> Undefined, showSubmitModal |-> FALSE]

InitPreviewState ==
    /\ formData = EmptyObject
    /\ errors = EmptyObject
    /\ submittedData = Undefined
    /\ showSubmitModal = FALSE
    /\ aliased = {}
    /\ prevView = InitialView
    /\ edits = 0

(* FormPreview's useEffect on [fields]: a handler of the builder that hands *)
(* the preview a new fields array resets the preview's state.               *)
FieldsEffect(sameArray) ==
    /\ prevView' = View
    /\ edits' = edits
    /\ IF sameArray THEN UNCHANGED previewVars
       ELSE /\ formData' = EmptyObject
            /\ errors' = EmptyObject
            /\ submittedData' = Undefined
            /\ showSubmitModal' = FALSE
            /\ aliased' = {}

(* moveKeepsArray taking every move to return prev.fields itself. *)
moveKeepsArray_Always(fields, fieldId, direction) == TRUE

(* moveField returns prev.fields itself: the field is in the root list and  *)
(* cannot move further.                                                     *)
moveKeepsArray(fields, fieldId, direction) ==
    LET index == findIndex(fields, fieldId)
        newIndex == IF direction = "up" THEN index - 1 ELSE index + 1
    IN  index # -1 /\ (newIndex < 0 \/ newIndex >= Len(fields))

Init ==
    /\ config = [fields |-> <<>>]
    /\ nextId = 0
    /\ importError = ""
    /\ result = Null
    /\ prev = [fields |-> <<>>]
    /\ lastOp = NoOp
    /\ steps = 0
    /\ InitPreviewState

AddField ==
    /\ steps < MaxSteps
    /\ \E parentId \in {Undefined} \cup
                       {Some(id) : id \in IdsOf(config.fields) \cup {AbsentId}},
          fieldType \in FieldType :
          /\ config' = addField(config, parentId, fieldType, generateId(nextId + 1))
          /\ lastOp' = [kind |-> "addField", parentId |-> parentId,
                        fieldType |-> fieldType, id |-> generateId(nextId + 1)]
    /\ nextId' = nextId + 1
    /\ prev' = config
    /\ steps' = steps + 1
    /\ FieldsEffect(FALSE)
    /\ UNCHANGED <<importError, result>>

(* updateField(fieldId, updates) with the updates taken from updateSet *)
UpdateFieldWith(updateSet) ==
    /\ steps < MaxSteps
    /\ \E fieldId \in IdsOf(config.fields) \cup {AbsentId}, updates \in updateSet :
          /\ config' = updateField(config, fieldId, updates)
          /\ lastOp' = [kind |-> "updateField", fieldId |-> fieldId,
                        updates |-> updates]
    /\ prev' = config
    /\ steps' = steps + 1
    /\ FieldsEffect(FALSE)
    /\ UNCHANGED <<nextId, importError, result>>

UpdateField == UpdateFieldWith(Updates)

DeleteField ==
    /\ steps < MaxSteps
    /\ \E fieldId \in IdsOf(config.fields) \cup {AbsentId} :
          /\ config' = deleteField(config, fieldId)
          /\ lastOp' = [kind |-> "deleteField", fieldId |-> fieldId]
    /\ prev' = config
    /\ steps' = steps + 1
    /\ FieldsEffect(FALSE)
    /\ UNCHANGED <<nextId, importError, result>>

MoveField ==
    /\ steps < MaxSteps
    /\ \E fieldId \in IdsOf(config.fields) \cup {AbsentId},
          direction \in Direction :
          /\ config' = moveField(config, fieldId, direction)
          /\ lastOp' = [kind |-> "moveField", fieldId |-> fieldId,
                        direction |-> direction]
          /\ FieldsEffect(moveKeepsArray(config.fields, fieldId, direction))
    /\ prev' = config
    /\ steps' = steps + 1
    /\ UNCHANGED <<nextId, importError, result>>

ImportSubmit ==
    /\ steps < MaxSteps
    /\ \E importJson \in ImportDocs \cup {exportedJson(config)} :
          /\ importError' = importMessage(importJson)
          /\ config' = IF importMessage(importJson) = ""
                       THEN updateConfig([fields |-> importJson.fields])
                       ELSE config
          /\ lastOp' = [kind |-> "import", importJson |-> importJson]
          /\ FieldsEffect(importMessage(importJson) # "")
    /\ prev' = config
    /\ steps' = steps + 1
    /\ UNCHANGED <<nextId, result>>

Next ==
    \/ AddField
    \/ UpdateField
    \/ DeleteField
    \/ MoveField
    \/ ImportSubmit

Spec == Init /\ [][Next]_vars

(* The four mutators of the context alone, from the empty config. *)
NextMutators ==
    \/ AddField
    \/ UpdateField
    \/ DeleteField
    \/ MoveField

SpecMutators == Init /\ [][NextMutators]_vars

-----------------------------------------------------------------------------
(* findField as a function of its inputs: every tree of at most MaxNodes    *)
(* fields over FindIds, every id, every parent path of at most MaxPathLen   *)
(* ids and no path at all, on relabelled trees.                             *)

FindIds == {"a", "b"}

RECURSIVE ForestsOf(_)
ForestsOf(n) ==
    IF n = 0 THEN {<<>>}
    ELSE UNION { { <<f>> \o rest :
                     f \in {Leaf(id) : id \in IF k = 1 THEN FindIds ELSE {}}
                           \cup {Group(id, c) : id \in FindIds,
                                                c \in ForestsOf(k - 1)},
                     rest \in ForestsOf(n - k) }
                 : k \in 1..n }

RECURSIVE PathsOf(_)
PathsOf(n) ==
    IF n = 0 THEN {<<>>}
    ELSE PathsOf(n - 1) \cup
         {Append(p, id) : p \in {q \in PathsOf(n - 1) : Len(q) = n - 1},
                          id \in FindIds}

InitFind ==
    /\ config \in {[fields |-> Relabel(f, 1)] :
                      f \in UNION {ForestsOf(n) : n \in 0..MaxNodes}}
    /\ nextId = 0
    /\ importError = ""
    /\ result = Null
    /\ prev = config
    /\ lastOp = NoOp
    /\ steps = 0
    /\ InitPreviewState

FindField ==
    /\ \E fieldId \in FindIds,
          parentPath \in {Undefined} \cup {Some(p) : p \in PathsOf(MaxPathLen)} :
          /\ result' = findField(fieldId, config.fields, parentPath)
          /\ lastOp' = [kind |-> "findField", fieldId |-> fieldId,
                        parentPath |-> parentPath]
    /\ UNCHANGED <<config, nextId, importError, prev, steps>>
    /\ UNCHANGED <<previewVars, prevView, edits>>

NextFind == FindField

SpecFind == InitFind /\ [][NextFind]_vars

-----------------------------------------------------------------------------
(* validateValue on its own: one field, every value                         *)

Limits == {Undefined} \cup {Some(n) : n \in 0..MaxLimit}

(* Fields of every type, required or not; number fields without limits,    *)
(* and with every pair of limits (a min above the max included).            *)
ValidateFields ==
    {TextField("f", "F", r) : r \in BOOLEAN}
    \cup {NumberField("f", "F", r) : r \in BOOLEAN}
    \cup {GroupField("f", "F", r, <<>>) : r \in BOOLEAN}
    \cup {Spread(NumberField("f", "F", r), [min |-> lo, max |-> hi]) :
              r \in BOOLEAN, lo \in Limits, hi \in Limits}

Texts ==
    { <<>>, <<" ">>, <<" ", " ">>, <<"a">>, <<"1">>, <<" ", "2", " ">>,
      <<"-", "1">>, <<"1", "a">>, <<"1", "0">>, <<"1", " ", "2">> }

Values ==
    {NullValue, NaN}
    \cup {Num(n) : n \in -1..(MaxLimit + 1)}
    \cup {Str(s) : s \in Texts}

InitValidate ==
    /\ config \in {[fields |-> <<f>>] : f \in ValidateFields}
    /\ nextId = 0
    /\ importError = ""
    /\ result = Null
    /\ prev = config
    /\ lastOp = NoOp
    /\ steps = 0
    /\ InitPreviewState

ValidateValue ==
    /\ \E value \in Values :
          /\ result' = validateValue(config.fields[1], value)
          /\ lastOp' = [kind |-> "validateValue", field |-> config.fields[1],
                        value |-> value]
    /\ UNCHANGED <<config, nextId, importError, prev, steps>>
    /\ UNCHANGED <<previewVars, prevView, edits>>

NextValidate == ValidateValue

SpecValidate == InitValidate /\ [][NextValidate]_vars

-----------------------------------------------------------------------------
(* updateField on its own: a tree, and updates that change the type and    *)
(* may carry a fields sequence                                              *)

(* A number field with limits; a group with a child; a group that holds a  *)
(* field with its own id; a text field beside a group that holds a field   *)
(* with the same id.                                                        *)
UpdateTrees ==
    { << Spread(NumberField("n", "N", FALSE),
                [min |-> Some(1), max |-> Some(MaxLimit)]) >>,
      << GroupField("g", "G", FALSE, << TextField("c", "C", FALSE) >>) >>,
      << GroupField("x", "Outer", FALSE, << TextField("x", "Inner", FALSE) >>) >>,
      << TextField("a", "A", FALSE),
         GroupField("h", "H", FALSE, << TextField("a", "B", FALSE) >>) >> }

CarryingUpdates ==
    { [type |-> "group", fields |-> << TextField("k", "K", FALSE) >>],
      [type |-> "text"] }

InitUpdate ==
    /\ config \in {[fields |-> tree] : tree \in UpdateTrees}
    /\ nextId = 0
    /\ importError = ""
    /\ result = Null
    /\ prev = config
    /\ lastOp = NoOp
    /\ steps = 0
    /\ InitPreviewState

UpdateFieldCarrying == UpdateFieldWith(Updates \cup CarryingUpdates)

NextUpdate == UpdateFieldCarrying

SpecUpdate == InitUpdate /\ [][NextUpdate]_vars

-----------------------------------------------------------------------------
(* The preview beside the builder: a tree is on display, the fields are    *)
(* filled and submitted, and a handler of the builder changes the tree.    *)

(* The nested required field of the submission tests; a required group;    *)
(* one id under a group and under a group inside it, with different        *)
(* rules; a number field with both limits beside a text field; a field     *)
(* whose id has a dot beside a group; two number fields with the label     *)
(* addField gives them.                                                     *)
PreviewTrees ==
    { << GroupField("g", "G", FALSE, << TextField("t", "T", TRUE) >>) >>,
      << GroupField("r", "R", TRUE, << TextField("o", "O", FALSE) >>) >>,
      << GroupField("g", "G", FALSE,
             << GroupField("h", "H", FALSE, << TextField("x", "Inner", TRUE) >>),
                TextField("x", "Outer", FALSE) >>) >>,
      << Spread(NumberField("n", "N", FALSE),
                [min |-> Some(1), max |-> Some(MaxLimit)]),
         TextField("s", "S", FALSE) >>,
      << GroupField("g", "G", FALSE, << TextField("t", "T", TRUE) >>),
         TextField("g.t", "D", FALSE) >>,
      << NumberField("p", getDefaultLabel("number"), FALSE),
         NumberField("q", getDefaultLabel("number"), FALSE) >> }

(* renderField: the inputs on display, each with its field and the parent  *)
(* path it was rendered with.                                               *)
RECURSIVE renderedInputs(_, _)
renderedInputs(fields, parentPath) ==
    UNION { IF fields[i].type = "group"
            THEN renderedInputs(fields[i].fields,
                                Append(parentPath, fields[i].id))
            ELSE {[field |-> fields[i], path |-> parentPath]}
            : i \in 1..Len(fields) }

(* What an input hands handleFieldChange: a text input its text, a number  *)
(* input null when it is empty and else the number typed.                  *)
InputValues(field) ==
    IF field.type = "number"
    THEN {NullValue, Num(0), Num(1), Num(MaxLimit + 1)}
    ELSE {Str(<<>>), Str(<<" ">>), Str(<<"a">>)}

InitPreview ==
    /\ config \in {[fields |-> tree] : tree \in PreviewTrees}
    /\ nextId = 0
    /\ importError = ""
    /\ result = Null
    /\ prev = config
    /\ lastOp = NoOp
    /\ steps = MaxSteps - 1
    /\ InitPreviewState

(* handleFieldChange(fieldId, value, parentPath), called by the input of a *)
(* rendered field.  The updater copies the root object only: an object     *)
(* below it is changed in place, in the snapshot too when shared with it.  *)
FieldChange ==
    /\ edits < MaxEdits
    /\ \E n \in renderedInputs(config.fields, <<>>) :
          /\ \E value \in InputValues(n.field) :
                LET fieldId == n.field.id
                    parentPath == n.path
                    after == handleFieldChange(View, config.fields, fieldId,
                                               value, parentPath)
                    inPlace == /\ Len(parentPath) > 0
                               /\ parentPath[1] \in DOMAIN formData
                               /\ isObject(formData[parentPath[1]])
                IN  /\ formData' = after.formData
                    /\ errors' = after.errors
                    /\ submittedData' =
                           IF inPlace /\ parentPath[1] \in aliased
                           THEN Some(Put(Val(submittedData), parentPath[1],
                                         after.formData[parentPath[1]]))
                           ELSE submittedData
                    /\ aliased' = IF Len(parentPath) = 0 THEN aliased \ {fieldId}
                                  ELSE IF inPlace THEN aliased
                                  ELSE aliased \ {parentPath[1]}
                    /\ lastOp' = [kind |-> "fieldChange", fieldId |-> fieldId,
                                  value |-> value, parentPath |-> parentPath]
    /\ prevView' = View
    /\ prev' = config
    /\ edits' = edits + 1
    /\ UNCHANGED <<builderVars, result, steps, showSubmitModal>>

(* handleSubmit; the snapshot is the form data object itself, so every     *)
(* object below its root is shared with the form data.  lastOp.stored      *)
(* tells whether setSubmittedData was called.                              *)
Submit ==
    /\ edits < MaxEdits
    /\ LET after == handleSubmit(View, config.fields)
       IN  /\ formData' = after.formData
           /\ errors' = after.errors
           /\ submittedData' = after.submittedData
           /\ showSubmitModal' = after.showSubmitModal
           /\ aliased' = IF DOMAIN after.errors = {}
                         THEN {k \in DOMAIN formData : isObject(formData[k])}
                         ELSE aliased
           /\ lastOp' = [kind |-> "submit",
                         stored |-> DOMAIN after.errors = {}]
    /\ prevView' = View
    /\ prev' = config
    /\ edits' = edits + 1
    /\ UNCHANGED <<builderVars, result, steps>>

(* The success display's onClose *)
CloseModal ==
    /\ edits < MaxEdits
    /\ showSubmitModal
    /\ showSubmitModal' = FALSE
    /\ lastOp' = [kind |-> "closeModal"]
    /\ prevView' = View
    /\ prev' = config
    /\ edits' = edits + 1
    /\ UNCHANGED <<builderVars, result, steps, formData, errors,
                   submittedData, aliased>>

NextPreview ==
    \/ FieldChange
    \/ Submit
    \/ CloseModal
    \/ AddField
    \/ UpdateField
    \/ DeleteField
    \/ MoveField
    \/ ImportSubmit

SpecPreview == InitPreview /\ [][NextPreview]_vars

-----------------------------------------------------------------------------
(* What the properties are stated with.                                     *)

(* The fields of a tree in depth-first pre-order (from position i of        *)
(* fields): each with the list that owns it, its 0-based index in that      *)
(* list and its parent path (the ids of its ancestors, root first).         *)
RECURSIVE PreOrder(_, _, _)
PreOrder(fields, path, i) ==
    IF i > Len(fields) THEN <<>>
    ELSE << [field |-> fields[i], parent |-> fields, index |-> i - 1,
             path |-> path] >>
         \o (IF fields[i].type = "group"
             THEN PreOrder(fields[i].fields, Append(path, fields[i].id), 1)
             ELSE <<>>)
         \o PreOrder(fields, path, i + 1)

Nodes(fields) == PreOrder(fields, <<>>, 1)

Located(n) ==
    [found |-> TRUE, field |-> n.field, parent |-> n.parent, index |-> n.index]

-----------------------------------------------------------------------------
(* C1: findField(X, T, P) with a parent path P returns a field only from    *)
(* the exact scope P: the returned field has id X and parent path exactly   *)
(* P, and the call returns not-found when no field with id X sits directly  *)
(* under P (so for X under two groups G1 and G2, the path to G1 gives the   *)
(* occurrence under G1 and the path to G2 the one under G2).                *)
C1_MatchOnlyInExactScope ==
    (lastOp.kind = "findField" /\ lastOp.parentPath # Undefined) =>
        LET hits == {n \in Range(Nodes(config.fields)) :
                        /\ n.field.id = lastOp.fieldId
                        /\ n.path = Val(lastOp.parentPath)}
        IN  IF hits = {} THEN result = Null
            ELSE result \in {Located(n) : n \in hits}

(* C2: findField(X, T) without a parent path returns the first field with   *)
(* id X in depth-first pre-order, with the list that owns it and its index  *)
(* in that list (result.parent[result.index] is the field), and not-found   *)
(* exactly when no field of T has id X.                                     *)
C2_FindFirstInPreOrder ==
    (lastOp.kind = "findField" /\ lastOp.parentPath = Undefined) =>
        LET hits == SelectSeq(Nodes(config.fields),
                              LAMBDA n : n.field.id = lastOp.fieldId)
        IN  IF Len(hits) = 0 THEN result = Null
            ELSE /\ result = Located(hits[1])
                 /\ result.parent[result.index + 1] = result.field

(* An id carried by two fields, the first of them in pre-order below the    *)
(* top level, is looked up without a path.                                  *)
C2_Witness ==
    /\ lastOp.kind = "findField"
    /\ lastOp.parentPath = Undefined
    /\ result # Null
    /\ result.parent # config.fields
    /\ Len(SelectSeq(Nodes(config.fields),
                     LAMBDA n : n.field.id = lastOp.fieldId)) >= 2

-----------------------------------------------------------------------------
(* Reference notions for the mutators' properties.                          *)

IsGroupId(fields, id) ==
    \E n \in Range(Nodes(fields)) : n.field.id = id /\ n.field.type = "group"

(* Ids are unique among the children of every sibling sequence. *)
SiblingUnique(fields) ==
    /\ \A i, j \in 1..Len(fields) : fields[i].id = fields[j].id => i = j
    /\ \A n \in Range(Nodes(fields)) :
           n.field.type = "group" =>
               \A i, j \in 1..Len(n.field.fields) :
                   n.field.fields[i].id = n.field.fields[j].id => i = j

(* A field without its children. *)
Attrs(field) == [k \in DOMAIN field \ {"fields"} |-> field[k]]

(* The tree as the pre-order sequence of its fields' attributes and parent  *)
(* paths: this determines the tree.                                         *)
Outline(fields) ==
    LET nodes == Nodes(fields)
    IN  [i \in 1..Len(nodes) |->
            [attrs |-> Attrs(nodes[i].field), path |-> nodes[i].path]]

(* fields with newField appended to the children of the first group, in     *)
(* depth-first pre-order, whose id is parentId; fields when there is none.  *)
RECURSIVE AppendToFirstGroup(_, _, _)
AppendToFirstGroup(fields, parentId, newField) ==
    LET holds(i) == /\ fields[i].type = "group"
                    /\ \/ fields[i].id = parentId
                       \/ IsGroupId(fields[i].fields, parentId)
    IN  IF ~ \E i \in 1..Len(fields) : holds(i) THEN fields
        ELSE LET i == CHOOSE i \in 1..Len(fields) :
                          holds(i) /\ \A j \in 1..(i - 1) : ~holds(j)
             IN  [fields EXCEPT ![i] =
                     IF @.id = parentId
                     THEN Spread(@, [fields |-> Append(@.fields, newField)])
                     ELSE Spread(@, [fields |->
                              AppendToFirstGroup(@.fields, parentId, newField)])]

-----------------------------------------------------------------------------
(* C3: addField(parentId, type) with a non-null parentId that names a group *)
(* inserts exactly one new field: as the last child of the first group, in  *)
(* depth-first order, whose id is parentId; the children of no other group  *)
(* change, also when several groups share that id.                          *)
C3_AddAppendsToFirstGroupOnly ==
    (/\ lastOp.kind = "addField"
     /\ lastOp.parentId # Undefined
     /\ IsGroupId(prev.fields, Val(lastOp.parentId))) =>
        /\ config.fields =
               AppendToFirstGroup(prev.fields, Val(lastOp.parentId),
                                  newFieldOf(lastOp.fieldType, lastOp.id))
        /\ NodeCount(config.fields) = NodeCount(prev.fields) + 1

(* C4: addField(parentId, type) where no group of the tree has id parentId  *)
(* (absent, or the id of text or number fields only) appends the new field  *)
(* at the end of the root sequence; every earlier field is unchanged and in *)
(* its original position.                                                   *)
C4_AddFallsBackToRoot ==
    (/\ lastOp.kind = "addField"
     /\ lastOp.parentId # Undefined
     /\ ~IsGroupId(prev.fields, Val(lastOp.parentId))) =>
        /\ Len(config.fields) = Len(prev.fields) + 1
        /\ SubSeq(config.fields, 1, Len(prev.fields)) = prev.fields
        /\ config.fields[Len(config.fields)].id = lastOp.id
        /\ config.fields[Len(config.fields)].type = lastOp.fieldType

(* A field is added under the id of a text field of a tree with a group. *)
C4_Witness ==
    /\ lastOp.kind = "addField"
    /\ lastOp.parentId # Undefined
    /\ \E n \in Range(Nodes(prev.fields)) :
           n.field.id = Val(lastOp.parentId) /\ n.field.type = "text"
    /\ \E n \in Range(Nodes(prev.fields)) : n.field.type = "group"
    /\ ~IsGroupId(prev.fields, Val(lastOp.parentId))

(* C5: addField(null, type) appends exactly one field at the end of the     *)
(* root sequence and leaves the existing fields and their order unchanged;  *)
(* the new field has the requested type, a fresh id, required = false, the  *)
(* default label of its type, no min or max when a number, no children      *)
(* when a group.                                                            *)
C5_AddToRoot ==
    (lastOp.kind = "addField" /\ lastOp.parentId = Undefined) =>
        /\ Len(config.fields) = Len(prev.fields) + 1
        /\ SubSeq(config.fields, 1, Len(prev.fields)) = prev.fields
        /\ LET f == config.fields[Len(config.fields)]
           IN  /\ f.type = lastOp.fieldType
               /\ f.id = lastOp.id
               /\ f.id \notin IdsOf(prev.fields)
               /\ f.required = FALSE
               /\ f.label = (CASE f.type = "text" ->
                                      t("formBuilder.defaultLabels.textField")
                               [] f.type = "number" ->
                                      t("formBuilder.defaultLabels.numberField")
                               [] f.type = "group" ->
                                      t("formBuilder.defaultLabels.groupField"))
               /\ f.type = "number" => DOMAIN f \cap {"min", "max"} = {}
               /\ f.type = "group" => f.fields = <<>>
               /\ f.type # "group" => "fields" \notin DOMAIN f

(* A number field is added at the top level of a tree that has fields. *)
C5_Witness ==
    /\ lastOp.kind = "addField"
    /\ lastOp.parentId = Undefined
    /\ lastOp.fieldType = "number"
    /\ Len(prev.fields) >= 2

-----------------------------------------------------------------------------
(* C6: after deleteField(X) no field with id X remains at any depth; every  *)
(* removed field goes with its whole subtree, and the fields that neither   *)
(* have id X nor lie under a field with id X remain, with unchanged         *)
(* attributes and in their original relative order.                         *)
C6_DeleteRemovesExactlyTheSubtrees ==
    lastOp.kind = "deleteField" =>
        /\ lastOp.fieldId \notin IdsOf(config.fields)
        /\ Outline(config.fields) =
               SelectSeq(Outline(prev.fields),
                         LAMBDA n : /\ n.attrs.id # lastOp.fieldId
                                    /\ lastOp.fieldId \notin Range(n.path))

(* A nested group that has children is deleted and other fields remain. *)
C6_Witness ==
    /\ lastOp.kind = "deleteField"
    /\ \E n \in Range(Nodes(prev.fields)) :
           /\ n.field.id = lastOp.fieldId
           /\ n.field.type = "group"
           /\ Len(n.field.fields) > 0
           /\ Len(n.path) > 0
    /\ Len(config.fields) > 0
    /\ config # prev

(* The ids of the fields below a field with id X. *)
DescendantIds(fields, X) ==
    {n.field.id : n \in {m \in Range(Nodes(fields)) : X \in Range(m.path)}}

(* The ids of the fields that neither have id X nor lie below such a field. *)
SurvivorIds(fields, X) ==
    {n.field.id : n \in {m \in Range(Nodes(fields)) :
                            m.field.id # X /\ X \notin Range(m.path)}}

(* C7 as stated: after deleteField(X) where X is a group, findField(d)      *)
(* without a path returns not-found for every id d of a former descendant   *)
(* of X.                                                                    *)
C7_DescendantsAreNotFound ==
    (lastOp.kind = "deleteField" /\ IsGroupId(prev.fields, lastOp.fieldId)) =>
        \A d \in DescendantIds(prev.fields, lastOp.fieldId) :
            findField(d, config.fields, Undefined) = Null

(* C7 as amended: after deleteField(X) where X is a group, findField(d)     *)
(* without a path returns not-found for every id d of a former descendant   *)
(* of X that is not also the id of a field outside the deleted subtrees;    *)
(* for an id that such a surviving field carries it returns a field.        *)
C7_DescendantsAreNotFoundUnlessIdSurvives ==
    (lastOp.kind = "deleteField" /\ IsGroupId(prev.fields, lastOp.fieldId)) =>
        \A d \in DescendantIds(prev.fields, lastOp.fieldId) :
            (findField(d, config.fields, Undefined) = Null)
                <=> d \notin SurvivorIds(prev.fields, lastOp.fieldId)

(* A group is deleted that has a descendant whose id no other field has. *)
C7_Witness ==
    /\ lastOp.kind = "deleteField"
    /\ IsGroupId(prev.fields, lastOp.fieldId)
    /\ \E d \in DescendantIds(prev.fields, lastOp.fieldId) :
           d \notin SurvivorIds(prev.fields, lastOp.fieldId)
    /\ Len(config.fields) > 0

-----------------------------------------------------------------------------
(* The first sibling sequence, scanning the root and then the groups in     *)
(* order, that has a field with id X as a direct child, as the set of the   *)
(* sequences that qualify ({} when no field has id X).                      *)
RECURSIVE FirstLevel(_, _)
FirstLevel(fields, X) ==
    IF \E i \in 1..Len(fields) : fields[i].id = X THEN {fields}
    ELSE LET below(i) == IF fields[i].type = "group"
                         THEN FirstLevel(fields[i].fields, X) ELSE {}
         IN  IF \A i \in 1..Len(fields) : below(i) = {} THEN {}
             ELSE below(CHOOSE i \in 1..Len(fields) :
                            below(i) # {} /\ \A j \in 1..(i - 1) : below(j) = {})

(* X is the first (up) or last (down) child of that sequence. *)
AtBoundary(fields, X, direction) ==
    \E s \in FirstLevel(fields, X) :
        IF direction = "up" THEN s[1].id = X ELSE s[Len(s)].id = X

(* fields with X swapped with its neighbour in that sequence only. *)
RECURSIVE MoveInFirstLevel(_, _, _)
MoveInFirstLevel(fields, X, direction) ==
    IF \E i \in 1..Len(fields) : fields[i].id = X
    THEN LET i == CHOOSE i \in 1..Len(fields) :
                      fields[i].id = X /\ \A j \in 1..(i - 1) : fields[j].id # X
             k == IF direction = "up" THEN i - 1 ELSE i + 1
         IN  IF k \in 1..Len(fields)
             THEN [fields EXCEPT ![i] = fields[k], ![k] = fields[i]]
             ELSE fields
    ELSE LET below(i) == /\ fields[i].type = "group"
                         /\ X \in IdsOf(fields[i].fields)
         IN  IF ~ \E i \in 1..Len(fields) : below(i) THEN fields
             ELSE LET i == CHOOSE i \in 1..Len(fields) :
                               below(i) /\ \A j \in 1..(i - 1) : ~below(j)
                  IN  [fields EXCEPT ![i] = Spread(@, [fields |->
                           MoveInFirstLevel(@.fields, X, direction)])]

(* C8: moveField(X, direction) changes at most one sibling sequence: it     *)
(* swaps X with its left (up) or right (down) neighbour only in the first   *)
(* level, root first and then into the groups, where X is a direct child;   *)
(* no occurrence of X in another group moves and no field changes parent    *)
(* (stated for trees whose ids are unique among siblings).                  *)
C8_MoveSwapsInOneSequenceOnly ==
    (lastOp.kind = "moveField" /\ SiblingUnique(prev.fields)) =>
        config.fields =
            MoveInFirstLevel(prev.fields, lastOp.fieldId, lastOp.direction)

(* C9: moveField(X, up) when X is the first child of its sibling sequence,  *)
(* moveField(X, down) when X is the last child, and moveField of an id no   *)
(* field has, leave the whole tree equal to the tree before the call.       *)
C9_MoveAtBoundaryChangesNothing ==
    (/\ lastOp.kind = "moveField"
     /\ SiblingUnique(prev.fields)
     /\ \/ lastOp.fieldId \notin IdsOf(prev.fields)
        \/ AtBoundary(prev.fields, lastOp.fieldId, lastOp.direction)) =>
        config = prev

(* C10: for X not the first child of its sibling sequence, moveField(X, up) *)
(* immediately followed by moveField(X, down) yields the original tree,     *)
(* and for X not the last child so does down followed by up.  prev is the   *)
(* tree before the first of the two moves, config' the tree after the       *)
(* second.                                                                  *)
C10_MoveThereAndBackRestores ==
    [][(/\ lastOp.kind = "moveField"
        /\ lastOp'.kind = "moveField"
        /\ lastOp'.fieldId = lastOp.fieldId
        /\ lastOp'.direction # lastOp.direction
        /\ SiblingUnique(prev.fields)
        /\ lastOp.fieldId \in IdsOf(prev.fields)
        /\ ~AtBoundary(prev.fields, lastOp.fieldId, lastOp.direction))
       => config' = prev]_vars

-----------------------------------------------------------------------------
(* updateField without a type change.                                       *)

(* u names no type, or the type every field with id X already has. *)
KeepsType(fields, X, u) ==
    "type" \in DOMAIN u =>
        \A n \in Range(Nodes(fields)) : n.field.id = X => n.field.type = u.type

(* before and after list the same fields in the same places; a field with  *)
(* another id has its attributes unchanged, and a field with id X that is   *)
(* not below another field with id X has u laid over its attributes.        *)
OverlaidOnly(before, after, X, u) ==
    LET B == Nodes(before)
        A == Nodes(after)
    IN  /\ Len(A) = Len(B)
        /\ \A i \in 1..Len(B) :
               /\ A[i].path = B[i].path
               /\ A[i].index = B[i].index
               /\ B[i].field.id # X =>
                      Attrs(A[i].field) = Attrs(B[i].field)
               /\ (B[i].field.id = X /\ X \notin Range(B[i].path)) =>
                      Attrs(A[i].field) = Attrs(Spread(B[i].field, u))

(* C11: updateField(X, u) where u names no type, or names the field's       *)
(* current type, overlays the attributes of u onto the field with id X and  *)
(* changes nothing else: the number and order of fields at every level,     *)
(* the children of every group and every field with another id stay.        *)
C11_UpdateOverlaysAndKeepsTheRest ==
    (lastOp.kind = "updateField"
     /\ KeepsType(prev.fields, lastOp.fieldId, lastOp.updates))
    => OverlaidOnly(prev.fields, config.fields, lastOp.fieldId, lastOp.updates)

(* C11, for an update that carries no fields sequence: the same overlay     *)
(* and frame; an update that carries one replaces the children of X.        *)
C11_UpdateWithoutFieldsOverlaysAndKeepsTheRest ==
    (lastOp.kind = "updateField"
     /\ KeepsType(prev.fields, lastOp.fieldId, lastOp.updates)
     /\ "fields" \notin DOMAIN lastOp.updates)
    => OverlaidOnly(prev.fields, config.fields, lastOp.fieldId, lastOp.updates)

(* A label is laid over a group that has children, beside other fields. *)
C11_Witness ==
    /\ lastOp.kind = "updateField"
    /\ lastOp.updates = [label |-> "Renamed"]
    /\ \E n \in Range(Nodes(prev.fields)) :
           /\ n.field.id = lastOp.fieldId
           /\ n.field.type = "group"
           /\ Len(n.field.fields) > 0
           /\ n.field.label # "Renamed"
    /\ \E n \in Range(Nodes(prev.fields)) : n.field.id # lastOp.fieldId
    /\ config # prev

-----------------------------------------------------------------------------
(* The validation rule, in the words of its description.                    *)

(* Absent, null, the empty string, or a string of white space only. *)
Empty(value) ==
    \/ value = NullValue
    \/ isString(value) /\ \A i \in 1..Len(value.s) : value.s[i] = " "

Spaces(k) == [i \in 1..k |-> " "]

(* The decimal numeral of n *)
RECURSIVE Numeral(_)
Numeral(n) ==
    IF n < 0 THEN <<"-">> \o Numeral(0 - n)
    ELSE IF n < 10
    THEN << CHOOSE c \in DOMAIN DigitValue : DigitValue[c] = n >>
    ELSE Numeral(n \div 10)
         \o << CHOOSE c \in DOMAIN DigitValue : DigitValue[c] = n % 10 >>

(* value is the number n: the number itself, or a text that spells it,     *)
(* white space around it allowed.                                           *)
Reads(value, n) ==
    \/ value = Num(n)
    \/ /\ isString(value)
       /\ \E i, j \in 0..Len(value.s) :
              value.s = Spaces(i) \o Numeral(n) \o Spaces(j)

Readings == -20..20

HasMin(field) == "min" \in DOMAIN field /\ field.min # Undefined
HasMax(field) == "max" \in DOMAIN field /\ field.max # Undefined

(* C12: a required field with an empty value (absent, null, empty or       *)
(* white space only) has the required error; an optional field with an      *)
(* empty value has none; a non-empty value of a number field has the        *)
(* invalid-number error when it is no number, else the minimum error when   *)
(* below a set min, else the maximum error when above a set max, the        *)
(* limits themselves passing; a non-empty value of a text field has none.   *)
C12_ValidationRule ==
    lastOp.kind = "validateValue" =>
        LET field == lastOp.field
            value == lastOp.value
            belowMin(n) == HasMin(field) /\ n < Val(field.min)
            aboveMax(n) == HasMax(field) /\ n > Val(field.max)
        IN  /\ (Empty(value) /\ field.required) =>
                   result = Some(t("formBuilder.validation.required"))
            /\ (Empty(value) /\ ~field.required) => result = Undefined
            /\ (~Empty(value) /\ field.type = "number") =>
                   /\ (\A n \in Readings : ~Reads(value, n)) =>
                          result = Some(t("formBuilder.validation.invalidNumber"))
                   /\ \A n \in Readings : Reads(value, n) =>
                          /\ belowMin(n) =>
                                 result = Some(tWith("formBuilder.validation.minValue",
                                                     "min", Val(field.min)))
                          /\ (~belowMin(n) /\ aboveMax(n)) =>
                                 result = Some(tWith("formBuilder.validation.maxValue",
                                                     "max", Val(field.max)))
                          /\ (~belowMin(n) /\ ~aboveMax(n)) => result = Undefined
            /\ (~Empty(value) /\ field.type = "text") => result = Undefined

(* A number equal to the set min of a field whose max is set too passes. *)
C12_Witness ==
    /\ lastOp.kind = "validateValue"
    /\ lastOp.field.type = "number"
    /\ HasMin(lastOp.field) /\ HasMax(lastOp.field)
    /\ lastOp.value = Num(Val(lastOp.field.min))
    /\ Val(lastOp.field.min) < Val(lastOp.field.max)
    /\ result = Undefined

-----------------------------------------------------------------------------
(* Submission.                                                              *)

(* The value of the field id under parentPath in data; null when it, or    *)
(* an object of the path, is not there.                                     *)
ValueAt(data, parentPath, id) ==
    LET found == dataAt(data, parentPath)
    IN  IF found = Undefined THEN NullValue ELSE OrNull(Get(Val(found), id))

Leaves(fields) == {n \in Range(Nodes(fields)) : n.field.type # "group"}
Groups(fields) == {n \in Range(Nodes(fields)) : n.field.type = "group"}

(* The last handler was submit and it stored the form data as snapshot. *)
Stored ==
    /\ lastOp.kind = "submit"
    /\ lastOp.stored
    /\ submittedData = Some(formData)
    /\ showSubmitModal

(* The last handler was submit and it stored nothing. *)
NotStored ==
    /\ lastOp.kind = "submit"
    /\ submittedData = prevView.submittedData
    /\ showSubmitModal = prevView.showSubmitModal

(* C13: whenever submit stores a snapshot, every text and number field of  *)
(* the tree passes the validation rule on the value the form data holds at *)
(* its path; a required field left empty, at any depth, blocks the         *)
(* submission.                                                              *)
C13_SnapshotOnlyOfValidData ==
    /\ Stored =>
           \A n \in Leaves(config.fields) :
               validateValue(n.field, ValueAt(formData, n.path, n.field.id))
                   = Undefined
    /\ (lastOp.kind = "submit"
        /\ \E n \in Leaves(config.fields) :
               /\ n.field.required
               /\ Empty(ValueAt(formData, n.path, n.field.id)))
       => NotStored

(* A snapshot is stored with a required field below a group filled in. *)
C13_Witness ==
    /\ Stored
    /\ \E n \in Leaves(config.fields) :
           /\ n.field.required
           /\ Len(n.path) > 0
           /\ ~Empty(ValueAt(formData, n.path, n.field.id))

(* C14: validateAll never validates a group as a leaf: after submit the    *)
(* error map has no entry under the key of a group, also when the group is *)
(* marked required and nothing was entered under it.                       *)
C14_NoErrorUnderAGroupKey ==
    lastOp.kind = "submit" =>
        \A n \in Groups(config.fields) :
            makeErrorKey(n.path, n.field.id) \notin DOMAIN errors

(* C15: submit runs validateAll on the form data; with an empty error map  *)
(* it stores the form data as snapshot and opens the success display; with *)
(* a non-empty one it replaces the live error map by it, opens no success  *)
(* display and leaves the form data and any earlier snapshot unchanged.    *)
C15_SubmitStoresOrReportsErrors ==
    lastOp.kind = "submit" =>
        LET found == validateAllFields(prevView.formData, config.fields)
        IN  /\ formData = prevView.formData
            /\ errors = found
            /\ DOMAIN found = {} =>
                   (submittedData = Some(formData) /\ showSubmitModal)
            /\ DOMAIN found # {} => NotStored

(* A submit is refused after an earlier one had stored a snapshot. *)
C15_Witness ==
    /\ lastOp.kind = "submit"
    /\ DOMAIN errors # {}
    /\ submittedData # Undefined
    /\ formData # EmptyObject

ScenarioTree ==
    << GroupField("g", "G", FALSE, << TextField("t", "T", TRUE) >>) >>

(* C16: with the tree [group g "G" [required text t "T"]], a submit while  *)
(* t is unfilled leaves an error map of exactly one entry, under the key   *)
(* of t below g, and stores no snapshot; a submit after t was set to a     *)
(* non-empty value leaves an empty error map and a snapshot whose labeled  *)
(* export is {G: {T: value}}.                                               *)
C16_NestedRequiredScenario ==
    (lastOp.kind = "submit" /\ config.fields = ScenarioTree) =>
        LET value == ValueAt(formData, <<"g">>, "t")
        IN  /\ Empty(value) =>
                   /\ errors = [k \in {"g.t"} |->
                                   t("formBuilder.validation.required")]
                   /\ NotStored
            /\ ~Empty(value) =>
                   /\ errors = EmptyObject
                   /\ submittedData # Undefined
                   /\ labeledData(Val(submittedData), config.fields)
                          = [k \in {"G"} |-> Obj([l \in {"T"} |-> value])]

(* The last submit of the scenario: t is filled and the snapshot stored. *)
C16_Witness ==
    /\ lastOp.kind = "submit"
    /\ config.fields = ScenarioTree
    /\ ValueAt(formData, <<"g">>, "t") = Str(<<"a">>)
    /\ Stored
    /\ prevView.submittedData = Undefined

-----------------------------------------------------------------------------
(* Field changes, the export and the reset.                                 *)

(* C17: onFieldChange(f, v, path) stores v at the path-qualified place of  *)
(* the form data; afterwards the error map has an entry under f's key      *)
(* exactly when v fails the validation rule of the field that sits at      *)
(* that exact path (as validateAll finds for that key on the same data);   *)
(* the values and error entries of all other fields are as they were.      *)
C17_FieldChangeValidatesTheFieldAtThePath ==
    lastOp.kind = "fieldChange" =>
        LET fieldId == lastOp.fieldId
            parentPath == lastOp.parentPath
            errorKey == makeErrorKey(parentPath, fieldId)
            all == validateAllFields(formData, config.fields)
        IN  /\ ValueAt(formData, parentPath, fieldId) = lastOp.value
            /\ \A n \in Leaves(config.fields) :
                   (n.field.id = fieldId /\ n.path = parentPath) =>
                       /\ errorKey \in DOMAIN errors
                              <=> validateValue(n.field, lastOp.value) # Undefined
                       /\ errorKey \in DOMAIN errors <=> errorKey \in DOMAIN all
                       /\ errorKey \in DOMAIN errors =>
                              errors[errorKey] = all[errorKey]
            /\ \A n \in Leaves(config.fields) :
                   (n.field.id # fieldId \/ n.path # parentPath) =>
                       ValueAt(formData, n.path, n.field.id)
                           = ValueAt(prevView.formData, n.path, n.field.id)
            /\ Del(errors, errorKey) = Del(prevView.errors, errorKey)

(* The labeled document as described: values keyed by label, a field with  *)
(* an empty value left out, a group present when it has something in it.   *)
RECURSIVE Labeled(_, _, _)
Labeled(data, fields, parentPath) ==
    LET kept == {i \in 1..Len(fields) :
                    IF fields[i].type = "group"
                    THEN DOMAIN Labeled(data, fields[i].fields,
                                        Append(parentPath, fields[i].id)) # {}
                    ELSE ~Empty(ValueAt(data, parentPath, fields[i].id))}
    IN  [label \in {fields[i].label : i \in kept} |->
            LET i == CHOOSE i \in kept : fields[i].label = label
            IN  IF fields[i].type = "group"
                THEN Obj(Labeled(data, fields[i].fields,
                                 Append(parentPath, fields[i].id)))
                ELSE ValueAt(data, parentPath, fields[i].id)]

(* C18: the labeled document of a snapshot keys every value by its         *)
(* field's label, omits every field whose value is empty (absent, null,    *)
(* the empty string, or white space only) and has a nested object for a    *)
(* group only when a field below it has a non-empty value.                 *)
C18_ExportOmitsEmptyValues ==
    submittedData # Undefined =>
        labeledData(Val(submittedData), config.fields)
            = Labeled(Val(submittedData), config.fields, <<>>)

BuilderKinds == {"addField", "updateField", "deleteField", "moveField", "import"}

(* C19: whenever a handler of the builder (add, update, delete, move or    *)
(* import) replaces the tree by a different one, the form data, the error  *)
(* map and the snapshot are back in their initial empty state.             *)
C19_TreeChangeResetsThePreview ==
    (lastOp.kind \in BuilderKinds /\ config.fields # prev.fields) =>
        /\ formData = EmptyObject
        /\ errors = EmptyObject
        /\ submittedData = Undefined
        /\ showSubmitModal = FALSE

(* The tree changes while values, an error and a snapshot are held. *)
C19_Witness ==
    /\ lastOp.kind \in BuilderKinds
    /\ config.fields # prev.fields
    /\ prevView.formData # EmptyObject
    /\ prevView.errors # EmptyObject
    /\ prevView.submittedData # Undefined
    /\ formData = EmptyObject

(* C20: the import answers each kind of bad text with its own message:     *)
(* text that is no JSON with the invalid-JSON message, a value that is no  *)
(* non-null object with invalid-format, a missing or non-array fields      *)
(* with missing-fields, an invalid field anywhere with invalid-fields.     *)
C20_DedicatedMessagePerCategory ==
    lastOp.kind = "import" =>
        LET importJson == lastOp.importJson
        IN  /\ importJson.kind = "notJson" =>
                   importError = t("formBuilder.messages.invalidJson")
            /\ importJson.kind = "notObject" =>
                   importError = t("formBuilder.messages.invalidFormat")
            /\ importJson.kind = "noFieldsArray" =>
                   importError = t("formBuilder.messages.missingFields")
            /\ (importJson.kind = "document"
                /\ \E i \in 1..Len(importJson.fields) :
                       ~validateField(importJson.fields[i])) =>
                   importError = t("formBuilder.messages.invalidFields")

-----------------------------------------------------------------------------
(* Import and export.                                                       *)

(* The document falls in one of the four categories the import rejects. *)
Rejected(importJson) ==
    \/ importJson.kind \in {"notJson", "notObject", "noFieldsArray"}
    \/ /\ importJson.kind = "document"
       /\ \E i \in 1..Len(importJson.fields) : ~validateField(importJson.fields[i])

(* C21: a rejected import, in any of the four failure categories, leaves   *)
(* the config exactly as it was; the config is replaced, verbatim and with *)
(* the document's own ids, only when the whole document passes validation. *)
C21_RejectedImportLeavesConfig ==
    lastOp.kind = "import" =>
        /\ Rejected(lastOp.importJson) => config = prev
        /\ ~Rejected(lastOp.importJson) =>
               config = [fields |-> lastOp.importJson.fields]

(* A document with an invalid field is rejected while fields are held. *)
C21_Witness ==
    /\ lastOp.kind = "import"
    /\ lastOp.importJson.kind = "document"
    /\ Rejected(lastOp.importJson)
    /\ Len(prev.fields) > 0
    /\ config = prev

(* A field as a valid FormConfig has it: a string id and label, a type     *)
(* among the three, a boolean required, and a fields array for a group.    *)
RECURSIVE ValidFormField(_)
ValidFormField(field) ==
    /\ {"id", "type", "label", "required"} \subseteq DOMAIN field
    /\ field.type \in FieldType
    /\ field.required \in BOOLEAN
    /\ field.type = "group" =>
           /\ "fields" \in DOMAIN field
           /\ \A i \in 1..Len(field.fields) : ValidFormField(field.fields[i])

(* C22: for any valid FormConfig, in particular every config reachable     *)
(* through addField, updateField, deleteField and moveField, importing the *)
(* exported document is accepted and yields a config deep-equal to the     *)
(* original (a property that is undefined counting as absent), with the    *)
(* same ids and the same order.                                             *)
C22_ExportImportRoundTrip ==
    (/\ lastOp.kind = "import"
     /\ lastOp.importJson = exportedJson(prev)
     /\ \A i \in 1..Len(prev.fields) : ValidFormField(prev.fields[i]))
    => /\ importError = ""
       /\ stringifyFields(config.fields) = stringifyFields(prev.fields)

-----------------------------------------------------------------------------
(* updateField with a type change.                                          *)

(* The fields updateField(X, u) replaced, each with what took its place:   *)
(* the fields with id X that are not below another field with id X.        *)
RECURSIVE Replaced(_, _, _)
Replaced(before, after, X) ==
    UNION { IF before[i].id = X
            THEN {[old |-> before[i], new |-> after[i]]}
            ELSE IF before[i].type = "group" /\ after[i].type = "group"
            THEN Replaced(before[i].fields, after[i].fields, X)
            ELSE {}
            : i \in 1..Len(before) }

(* C23: after updateField changes a field's type, the field carries min or *)
(* max only if its new type is number and a fields sequence only if its    *)
(* new type is group.                                                       *)
C23_RetypedFieldDropsStaleAttributes ==
    lastOp.kind = "updateField" =>
        \A r \in Replaced(prev.fields, config.fields, lastOp.fieldId) :
            r.new.type # r.old.type =>
                /\ (HasMin(r.new) \/ HasMax(r.new)) => r.new.type = "number"
                /\ "fields" \in DOMAIN r.new => r.new.type = "group"

(* C24: updateField(X, u) with u.type = group on a field that is no group  *)
(* yields a group whose children are the fields sequence u carries, and an *)
(* empty sequence when u carries none.                                      *)
C24_ToGroupTakesCarriedFields ==
    (lastOp.kind = "updateField"
     /\ "type" \in DOMAIN lastOp.updates /\ lastOp.updates.type = "group")
    => \A r \in Replaced(prev.fields, config.fields, lastOp.fieldId) :
           r.old.type # "group" =>
               /\ r.new.type = "group"
               /\ r.new.fields = IF "fields" \in DOMAIN lastOp.updates
                                 THEN lastOp.updates.fields ELSE <<>>

(* C25: updateField(X, u) rewrites every field with id X at every depth,   *)
(* one below another field with id X too: after an update of attributes    *)
(* every field with id X has them.                                          *)
C25_UpdateRewritesEveryOccurrence ==
    (lastOp.kind = "updateField"
     /\ DOMAIN lastOp.updates \cap {"type", "fields", "id"} = {})
    => \A n \in Range(Nodes(config.fields)) :
           n.field.id = lastOp.fieldId =>
               \A k \in DOMAIN lastOp.updates : n.field[k] = lastOp.updates[k]

-----------------------------------------------------------------------------
(* The snapshot, the keys and the way out of a refused submit.              *)

(* C26: onFieldChange never modifies a form-data tree held before in       *)
(* place: the snapshot of a successful submit keeps, at every depth, its   *)
(* values through every later field change.                                *)
C26_FieldChangeLeavesTheSnapshot ==
    lastOp.kind = "fieldChange" => submittedData = prevView.submittedData

(* C27: the path-qualified key is injective: two fields at different       *)
(* positions of the tree (another ancestor-id sequence or another id)      *)
(* never get the same key in the error map, for any ids the import takes.  *)
C27_ErrorKeyIsInjective ==
    \A m, n \in Range(Nodes(config.fields)) :
        (m.path # n.path \/ m.field.id # n.field.id) =>
            makeErrorKey(m.path, m.field.id) # makeErrorKey(n.path, n.field.id)

(* The form data after the inputs of todo were set as filling says. *)
RECURSIVE Filled(_, _, _)
Filled(data, todo, filling) ==
    IF todo = {} THEN data
    ELSE LET n == CHOOSE n \in todo : TRUE
         IN  Filled(setAt(data, n.path, n.field.id, filling[n]),
                    todo \ {n}, filling)

(* Some values typed into the inputs on display make submit succeed. *)
Recoverable ==
    LET inputs == renderedInputs(config.fields, <<>>)
        typed == UNION {InputValues(n.field) : n \in inputs}
    IN  \E filling \in [inputs -> typed] :
            /\ \A n \in inputs : filling[n] \in InputValues(n.field)
            /\ DOMAIN validateAllFields(Filled(formData, inputs, filling),
                                        config.fields) = {}

(* C28: no refused submit is a dead end: from every state in which submit  *)
(* leaves a non-empty error map, some sequence of field changes leads to a *)
(* state in which submit succeeds.                                          *)
C28_RefusedSubmitIsRecoverable ==
    (lastOp.kind = "submit" /\ DOMAIN errors # {}) => Recoverable

(* The labeled document has the non-empty values of data for the fields,   *)
(* each under its field's label, a group's under the group's label.        *)
RECURSIVE Exported(_, _, _, _)
Exported(document, data, fields, parentPath) ==
    \A i \in 1..Len(fields) :
        LET field == fields[i]
            value == ValueAt(data, parentPath, field.id)
            below == Append(parentPath, field.id)
        IN  IF field.type = "group"
            THEN (\E n \in Leaves(field.fields) :
                      ~Empty(ValueAt(data, below \o n.path, n.field.id)))
                 => /\ field.label \in DOMAIN document
                    /\ isObject(document[field.label])
                    /\ Exported(document[field.label].m, data, field.fields,
                                below)
            ELSE (~Empty(value) /\ ~isObject(value))
                 => /\ field.label \in DOMAIN document
                    /\ document[field.label] = value

(* C29: every non-empty value of the snapshot that belongs to a field of   *)
(* the tree is in the labeled export: two fields of one sibling sequence   *)
(* never overwrite each other's entry, with the same label either.         *)
C29_ExportKeepsEveryValue ==
    submittedData # Undefined =>
        Exported(labeledData(Val(submittedData), config.fields),
                 Val(submittedData), config.fields, <<>>)

-----------------------------------------------------------------------------
====
